---- MODULE Spec2Model ----
(***************************************************************************)
(* Model of app/lib/actions.ts: the three server actions createInvoice,    *)
(* updateInvoice and deleteInvoice, the zod schema they validate with, the *)
(* invoices table they write, and the revalidatePath / redirect calls      *)
(* that end them.  Every `await sql` is a point where other invocations    *)
(* may run, so an invocation is split there: the synchronous part up to    *)
(* the statement, the statement's execution by the datastore, and the      *)
(* continuation after the await.                                           *)
(***************************************************************************)
EXTENDS Integers, Sequences, FiniteSets, TLC

\* ------------------------------------------------------------------ bounds
MaxCalls == 2       \* invocations in one behaviour, all of which may overlap
MaxId    == 2       \* ids 1..MaxId exist as update/delete targets and insert ids
FracDigits == 3     \* decimal places the fixed-point numbers carry

\* Invocation p is the p-th one started.
Procs == 1..MaxCalls

\* TLC orders a record's fields by where the names first occur in the module.
\* Every record below lists its fields in this order, so that a record is in
\* normal form as it is built.
FieldOrder ==
    [op |-> 1, kind |-> 2, id |-> 3, customer_id |-> 4, customerId |-> 5,
     amount |-> 6, status |-> 7, date |-> 8, formData |-> 9, nan |-> 10,
     v |-> 11, success |-> 12, data |-> 13, fieldErrors |-> 14, type |-> 15,
     errors |-> 16, message |-> 17, path |-> 18]

\* The ids updateInvoice and deleteInvoice are called with.
Ids == 1..MaxId

\* The days new Date() may show.
Days == {1, 2}

RECURSIVE Pow10(_)
Pow10(n) == IF n = 0 THEN 1 ELSE 10 * Pow10(n - 1)

\* A JS number n is held as the integer n * Scale (or NaN).
Scale == Pow10(FracDigits)

\* ------------------------------------------------------- values and inputs
\* FormData.get(name) is null or a string: <<>> or <<s>>.
Null    == <<>>
Some(s) == <<s>>

NaN    == [nan |-> TRUE,  v |-> 0]
Num(v) == [nan |-> FALSE, v |-> v]

Digits == {"0", "1", "2", "3", "4", "5", "6", "7", "8", "9"}

DigitVal(c) ==
    CASE c = "0" -> 0 [] c = "1" -> 1 [] c = "2" -> 2 [] c = "3" -> 3
      [] c = "4" -> 4 [] c = "5" -> 5 [] c = "6" -> 6 [] c = "7" -> 7
      [] c = "8" -> 8 [] c = "9" -> 9

RECURSIVE DigitsToNat(_)
DigitsToNat(s) ==
    IF s = <<>> THEN 0
    ELSE DigitsToNat(SubSeq(s, 1, Len(s) - 1)) * 10 + DigitVal(s[Len(s)])

IsDigits(s) == \A i \in 1..Len(s) : s[i] \in Digits

\* The texts typed into the amount field, as sequences of characters.
AmountTexts ==
    { <<>>,                                   \* ""
      <<"a", "b", "c">>,                      \* "abc"
      <<"0">>,                                \* "0"
      <<"-", "1">>,                           \* "-1"
      <<"1", "0", ".", "5", "0">>,            \* "10.50"
      <<"1", "0", ".", "5", "5", "5">>,       \* "10.555"
      <<"2", "0">> }                          \* "20"

CustomerInputs == {Null, Some(""), Some("c1"), Some("c2")}
AmountInputs   == {Null} \cup {Some(t) : t \in AmountTexts}
StatusInputs   == {Null, Some("pending"), Some("paid"), Some("draft")}

FormDatas ==
    [customerId : CustomerInputs, amount : AmountInputs, status : StatusInputs]

Form(customerId, amount, status) ==
    [customerId |-> customerId, amount |-> amount, status |-> status]

\* A form that passes validation.
PaidForm == Form(Some("c1"), Some(<<"1", "0", ".", "5", "0">>), Some("paid"))

\* The forms concurrent invocations are given.
SampleForms ==
    { PaidForm,
      Form(Some("c2"), Some(<<"1", "0", ".", "5", "5", "5">>), Some("pending")),
      Form(Null, Null, Null) }

\* ----------------------------------------------------------- Number(input)
\* JS Number() on what FormData.get returns: null and "" are 0, a decimal
\* numeral with an optional sign is its value, anything else is NaN.
UnsignedNumber(t) ==
    LET dots == {i \in 1..Len(t) : t[i] = "."}
    IN  IF Cardinality(dots) > 1 THEN NaN
        ELSE LET d    == IF dots = {} THEN Len(t) + 1 ELSE CHOOSE i \in dots : TRUE
                 int  == SubSeq(t, 1, d - 1)
                 frac == SubSeq(t, d + 1, Len(t))
             IN  IF /\ IsDigits(int) /\ IsDigits(frac)
                    /\ Len(int) + Len(frac) > 0
                    /\ Len(frac) <= FracDigits
                 THEN Num(DigitsToNat(int) * Scale
                          + DigitsToNat(frac) * Pow10(FracDigits - Len(frac)))
                 ELSE NaN

Negate(n) == IF n.nan THEN NaN ELSE Num(0 - n.v)

Number(input) ==
    IF input = Null THEN Num(0)
    ELSE LET t == input[1]
         IN  IF t = <<>> THEN Num(0)
             ELSE IF t[1] = "-" THEN Negate(UnsignedNumber(Tail(t)))
             ELSE IF t[1] = "+" THEN UnsignedNumber(Tail(t))
             ELSE UnsignedNumber(t)

\* ------------------------------------------------------------- FormSchema
Statuses == {"pending", "paid"}

CustomerIdIssues(input) ==
    IF input = Null THEN <<"Please select a customer.">> ELSE <<>>

\* The amount rule as .gte(0).
AmountIssuesGte(input) ==
    LET n == Number(input)
    IN  IF n.nan THEN <<"Expected number, received nan">>
        ELSE IF ~(n.v >= 0) THEN <<"Please enter an amount greater than $0.">>
        ELSE <<>>

AmountIssues(input) ==
    LET n == Number(input)
    IN  IF n.nan THEN <<"Expected number, received nan">>
        ELSE IF ~(n.v > 0) THEN <<"Please enter an amount greater than $0.">>
        ELSE <<>>

StatusIssues(input) ==
    IF input = Null THEN <<"Please select an invoice status.">>
    ELSE IF input[1] \notin Statuses THEN <<"Invalid enum value.">>
    ELSE <<>>

FormSchema(raw) ==
    [customerId |-> CustomerIdIssues(raw.customerId),
     amount     |-> AmountIssues(raw.amount),
     status     |-> StatusIssues(raw.status)]

Fields == {"customerId", "amount", "status"}

\* safeParse: success with the parsed data, or the flattened fieldErrors,
\* which has a key for each field with an issue and for no other.
safeParse(raw) ==
    LET issues == FormSchema(raw)
        failed == {f \in Fields : issues[f] # <<>>}
    IN  IF failed = {}
        THEN [success |-> TRUE,
              data    |-> [customerId |-> raw.customerId[1],
                           amount     |-> Number(raw.amount),
                           status     |-> raw.status[1]]]
        ELSE [success     |-> FALSE,
              fieldErrors |-> [f \in failed |-> issues[f]]]

\* ---------------------------------------------------------- invoices table
\* amount * 100 on a fixed-point number.
TimesHundred(n) == Num(n.v * 100)

\* A row of the invoices table; amount is the number sent, at Scale.
Row(id, customer_id, amount, status, date) ==
    [id |-> id, customer_id |-> customer_id, amount |-> amount,
     status |-> status, date |-> date]

NoStmt == [kind |-> "none"]

\* INSERT INTO invoices (customer_id,amount,status,date) VALUES (...)
InsertStmt(customerId, amountInCents, status, date) ==
    [kind |-> "INSERT", customer_id |-> customerId, amount |-> amountInCents.v,
     status |-> status, date |-> date]

\* UPDATE invoices SET customer_id = .., amount = .., status = .. WHERE id = ..
UpdateStmt(id, customerId, amountInCents, status) ==
    [kind |-> "UPDATE", id |-> id, customer_id |-> customerId,
     amount |-> amountInCents.v, status |-> status]

\* DELETE FROM invoices WHERE id = ..
DeleteStmt(id) == [kind |-> "DELETE", id |-> id]

ApplyInsert(s, rows, newId) ==
    rows \cup {Row(newId, s.customer_id, s.amount, s.status, s.date)}

\* The UPDATE without its WHERE clause.
ApplyUpdateEveryRow(s, rows) ==
    {[r EXCEPT !.customer_id = s.customer_id, !.amount = s.amount,
               !.status = s.status] : r \in rows}

\* The UPDATE as two statements, the second of which is lost.
ApplyUpdateTwoColumns(s, rows) ==
    {IF r.id = s.id
     THEN [r EXCEPT !.customer_id = s.customer_id, !.amount = s.amount]
     ELSE r : r \in rows}

ApplyUpdate(s, rows) ==
    {IF r.id = s.id
     THEN [r EXCEPT !.customer_id = s.customer_id, !.amount = s.amount,
                    !.status = s.status]
     ELSE r : r \in rows}

ApplyDelete(s, rows) == {r \in rows : r.id # s.id}

\* ------------------------------------------------------------------- state
VARIABLES
    invoices,   \* the rows of the invoices table
    nextId,     \* the identifier the datastore gives the next inserted row
    pc,         \* per invocation: "idle", "sql" (awaiting), "resume", "done"
    call,       \* per invocation: its operation and arguments
    stmt,       \* per invocation: the statement it issued, or NoStmt
    trace,      \* per invocation: what it did, in order
    result,     \* per invocation: how it ended
    lastStmt    \* per id: the last statement that executed on that id

vars == <<invoices, nextId, pc, call, stmt, trace, result, lastStmt>>

NoCall    == [op |-> "none"]
Pending   == [type |-> "pending"]
Undefined == [type |-> "undefined"]      \* the action returned nothing
Redirect  == [type |-> "redirect", path |-> "/dashboard/invoices"]

\* A returned State object; errors is present only on a validation failure.
ValidationState(fieldErrors, message) ==
    [type |-> "state", errors |-> fieldErrors, message |-> message]

MessageState(message) == [type |-> "state", message |-> message]

\* Well-formed stores the invocations may find: amounts are whole cents.
SeedRow  == Row(1, "c1", 500 * Scale, "pending", 1)
SeedRow2 == Row(2, "c2", 2000 * Scale, "paid", 1)

InitStores == {{}, {SeedRow}, {SeedRow, SeedRow2}}

Init ==
    /\ invoices \in InitStores
    /\ nextId = Cardinality(invoices) + 1
    /\ pc = [p \in Procs |-> "idle"]
    /\ call = [p \in Procs |-> NoCall]
    /\ stmt = [p \in Procs |-> NoStmt]
    /\ trace = [p \in Procs |-> <<>>]
    /\ result = [p \in Procs |-> Pending]
    /\ lastStmt = [i \in Ids |-> NoStmt]

CanStart(p) == pc[p] = "idle" /\ (IF p = 1 THEN TRUE ELSE pc[p - 1] # "idle")

\* The handler without its early return.
EarlyReturnNever(validatedFields) == FALSE

\* if(!validatedFields.success) return {errors, message}
EarlyReturn(validatedFields) == ~validatedFields.success

\* The synchronous part of an invocation, up to its return or its await.
Begin(p, c, validatedFields, failMessage, statement) ==
    /\ CanStart(p)
    /\ call' = [call EXCEPT ![p] = c]
    /\ trace' = [trace EXCEPT ![p] = <<>>]
    /\ IF EarlyReturn(validatedFields)
       THEN /\ pc' = [pc EXCEPT ![p] = "done"]
            /\ stmt' = [stmt EXCEPT ![p] = NoStmt]
            /\ result' = [result EXCEPT ![p] =
                   ValidationState(validatedFields.fieldErrors, failMessage)]
       ELSE /\ pc' = [pc EXCEPT ![p] = "sql"]
            /\ stmt' = [stmt EXCEPT ![p] = statement]
            /\ result' = [result EXCEPT ![p] = Pending]
    /\ UNCHANGED <<invoices, nextId, lastStmt>>

\* now is the day new Date() shows.
createInvoice(p, formData, now) ==
    LET validatedFields == safeParse(formData)
        d == validatedFields.data
    IN  Begin(p, [op |-> "createInvoice", formData |-> formData],
              validatedFields, "Missing fields. Failed to create invoice.",
              IF validatedFields.success
              THEN InsertStmt(d.customerId, TimesHundred(d.amount), d.status, now)
              ELSE NoStmt)

updateInvoice(p, id, formData) ==
    LET validatedFields == safeParse(formData)
        d == validatedFields.data
    IN  Begin(p, [op |-> "updateInvoice", id |-> id, formData |-> formData],
              validatedFields, "Missing fields. Failed to update invoice.",
              IF validatedFields.success
              THEN UpdateStmt(id, d.customerId, TimesHundred(d.amount), d.status)
              ELSE NoStmt)

deleteInvoice(p, id) ==
    Begin(p, [op |-> "deleteInvoice", id |-> id],
          [success |-> TRUE], "", DeleteStmt(id))

\* The datastore executes the awaited statement, atomically.
SqlExecute(p) ==
    /\ pc[p] = "sql"
    /\ LET s == stmt[p]
       IN  CASE s.kind = "INSERT" ->
                  /\ nextId <= MaxId
                  /\ invoices' = ApplyInsert(s, invoices, nextId)
                  /\ nextId' = nextId + 1
                  /\ lastStmt' = [lastStmt EXCEPT ![nextId] = s]
             [] s.kind = "UPDATE" ->
                  /\ invoices' = ApplyUpdate(s, invoices)
                  /\ lastStmt' = [lastStmt EXCEPT ![s.id] = s]
                  /\ UNCHANGED nextId
             [] s.kind = "DELETE" ->
                  /\ invoices' = ApplyDelete(s, invoices)
                  /\ lastStmt' = [lastStmt EXCEPT ![s.id] = s]
                  /\ UNCHANGED nextId
    /\ trace' = [trace EXCEPT ![p] = Append(@, "sql_ok")]
    /\ pc' = [pc EXCEPT ![p] = "resume"]
    /\ UNCHANGED <<call, stmt, result>>

\* The awaited statement rejects: the table is as it was.
SqlFail(p) ==
    /\ pc[p] = "sql"
    /\ trace' = [trace EXCEPT ![p] = Append(@, "sql_error")]
    /\ pc' = [pc EXCEPT ![p] = "resume"]
    /\ UNCHANGED <<invoices, nextId, call, stmt, result, lastStmt>>

\* The handler without its try/catch.
FailedNever(p) == FALSE

\* The catch block runs when the awaited statement rejected.
Failed(p) == trace[p] = <<"sql_error">>

\* redirect before revalidatePath, which then never runs.
SuccessTraceRedirectOnly == <<"redirect">>

\* revalidatePath('/dashboard/invoices'); redirect('/dashboard/invoices');
SuccessTrace == <<"revalidatePath", "redirect">>

\* revalidatePath inside the try block, after the DELETE.
DeleteTraceOnSuccessOnly(failed) ==
    IF failed THEN <<"console.log">> ELSE <<"revalidatePath">>

\* deleteInvoice: catch { console.log(error) }; revalidatePath(...)
DeleteTrace(failed) ==
    (IF failed THEN <<"console.log">> ELSE <<>>) \o <<"revalidatePath">>

\* After the await of createInvoice / updateInvoice: the catch block returns a
\* message; otherwise revalidatePath, then redirect, which does not return.
AfterWrite(p, op) ==
    /\ pc[p] = "resume"
    /\ call[p].op = op
    /\ IF Failed(p)
       THEN /\ result' = [result EXCEPT ![p] =
                   MessageState("Database Error: Failed to Create Invoice.")]
            /\ UNCHANGED trace
       ELSE /\ trace' = [trace EXCEPT ![p] = @ \o SuccessTrace]
            /\ result' = [result EXCEPT ![p] = Redirect]
    /\ pc' = [pc EXCEPT ![p] = "done"]
    /\ UNCHANGED <<invoices, nextId, call, stmt, lastStmt>>

createInvoiceResume(p) == AfterWrite(p, "createInvoice")

updateInvoiceResume(p) == AfterWrite(p, "updateInvoice")

\* After the await of deleteInvoice: the catch block logs; revalidatePath runs
\* either way and the action returns nothing.
deleteInvoiceResume(p) ==
    /\ pc[p] = "resume"
    /\ call[p].op = "deleteInvoice"
    /\ trace' = [trace EXCEPT ![p] = @ \o DeleteTrace(Failed(p))]
    /\ result' = [result EXCEPT ![p] = Undefined]
    /\ pc' = [pc EXCEPT ![p] = "done"]
    /\ UNCHANGED <<invoices, nextId, call, stmt, lastStmt>>

\* Overlapping invocations on the sample forms.
Next ==
    \/ \E p \in Procs, formData \in SampleForms, now \in Days :
           createInvoice(p, formData, now)
    \/ \E p \in Procs, id \in Ids, formData \in SampleForms : updateInvoice(p, id, formData)
    \/ \E p \in Procs, id \in Ids : deleteInvoice(p, id)
    \/ \E p \in Procs : SqlExecute(p)
    \/ \E p \in Procs : SqlFail(p)
    \/ \E p \in Procs : createInvoiceResume(p)
    \/ \E p \in Procs : updateInvoiceResume(p)
    \/ \E p \in Procs : deleteInvoiceResume(p)

Spec == Init /\ [][Next]_vars

\* A single invocation, on every form of FormDatas.
NextForms ==
    \/ \E formData \in FormDatas, now \in Days : createInvoice(1, formData, now)
    \/ \E id \in Ids, formData \in FormDatas : updateInvoice(1, id, formData)
    \/ \E id \in Ids : deleteInvoice(1, id)
    \/ SqlExecute(1)
    \/ SqlFail(1)
    \/ createInvoiceResume(1)
    \/ updateInvoiceResume(1)
    \/ deleteInvoiceResume(1)

SpecForms == Init /\ [][NextForms]_vars

\* The datastore settles every statement it is sent and the event loop runs
\* every continuation whose await has settled.
Fairness ==
    \A p \in Procs :
        /\ WF_vars(SqlExecute(p) \/ SqlFail(p))
        /\ WF_vars(updateInvoiceResume(p))
        /\ WF_vars(deleteInvoiceResume(p))

\* deleteInvoice invocations overlapping each other and updateInvoice
\* invocations that write the same rows, each of which makes progress.
NextDelete ==
    \/ \E p \in Procs, id \in Ids : deleteInvoice(p, id)
    \/ \E p \in Procs, id \in Ids : updateInvoice(p, id, PaidForm)
    \/ \E p \in Procs : SqlExecute(p)
    \/ \E p \in Procs : SqlFail(p)
    \/ \E p \in Procs : updateInvoiceResume(p)
    \/ \E p \in Procs : deleteInvoiceResume(p)

FairSpec == Init /\ [][NextDelete]_vars /\ Fairness

\* ------------------------------------------------------ reading the state
Writes == {"createInvoice", "updateInvoice"}

IsWrite(p) == call[p].op \in Writes

Events(p) == {trace[p][i] : i \in 1..Len(trace[p])}

Count(p, e) == Cardinality({i \in 1..Len(trace[p]) : trace[p][i] = e})

Statements(p) == Count(p, "sql_ok") + Count(p, "sql_error")

\* The step in which the datastore executes invocation p's statement.
Executes(p) == pc[p] = "sql" /\ pc'[p] = "resume" /\ trace'[p] = <<"sql_ok">>

\* The step in which invocation p returns from a failed validation.
Rejects(p) == pc[p] = "idle" /\ pc'[p] = "done"

RowsOf(rows, id) == {r \in rows : r.id = id}

Round(v) == ((v + Scale \div 2) \div Scale) * Scale

\* ------------------------------------------------------------------ claims

\* What a rejected createInvoice / updateInvoice leaves behind.
C1_State ==
    \A p \in Procs :
        (pc[p] # "idle" /\ IsWrite(p) /\ ~safeParse(call[p].formData).success) =>
            /\ pc[p] = "done"
            /\ result[p].type = "state"
            /\ DOMAIN result[p] = {"type", "errors", "message"}
            /\ DOMAIN result[p].errors # {}
            /\ \A f \in DOMAIN result[p].errors : result[p].errors[f] # <<>>
            /\ result[p].message \in {"Missing fields. Failed to create invoice.",
                                      "Missing fields. Failed to update invoice."}
            /\ stmt[p] = NoStmt
            /\ trace[p] = <<>>

\* The rejecting step leaves the datastore alone.
C1_Step ==
    \A p \in Procs :
        Rejects(p) => invoices' = invoices /\ nextId' = nextId /\ lastStmt' = lastStmt

\* C1: when validation fails, createInvoice and updateInvoice return the
\* per-field errors and a message, and do nothing else: no statement, no
\* cache invalidation, no navigation, and the store is as it was.
C1_ValidationFailureHasNoEffect == []C1_State /\ [][C1_Step]_vars

C1_Witness ==
    \E p \in Procs :
        /\ pc[p] = "done" /\ call[p].op = "updateInvoice"
        /\ ~safeParse(call[p].formData).success
        /\ invoices = {SeedRow}

\* C2: when the statement of createInvoice or updateInvoice fails, the
\* invocation returns {message: "Database Error: Failed to Create Invoice."},
\* for update as for create, and neither invalidates the cache nor navigates.
C2_DatastoreFailureReturnsMessage ==
    \A p \in Procs :
        (IsWrite(p) /\ "sql_error" \in Events(p)) =>
            /\ trace[p] = <<"sql_error">>
            /\ pc[p] \in {"done", "resume"}
            /\ pc[p] = "done" =>
                   result[p] = [type |-> "state",
                                message |-> "Database Error: Failed to Create Invoice."]

C2_Witness ==
    /\ \E p \in Procs : /\ pc[p] = "done" /\ call[p].op = "updateInvoice"
                        /\ trace[p] = <<"sql_error">>
    /\ \E p \in Procs : /\ pc[p] = "done" /\ call[p].op = "createInvoice"
                        /\ trace[p] = <<"sql_error">>

\* What a deleteInvoice invocation has done, while it runs and once it is done.
C3_State ==
    \A p \in Procs :
        call[p].op = "deleteInvoice" =>
            /\ "redirect" \notin Events(p)
            /\ pc[p] # "done" => "revalidatePath" \notin Events(p)
            /\ pc[p] = "done" =>
                   /\ result[p] = Undefined
                   /\ Statements(p) = 1
                   /\ Count(p, "revalidatePath") = 1
                   /\ trace[p][1] \in {"sql_ok", "sql_error"}
                   /\ trace[p][Len(trace[p])] = "revalidatePath"

\* C3: every deleteInvoice invocation, whether its DELETE succeeds or fails,
\* eventually completes having invalidated the cached listing exactly once,
\* after the delete attempt; it returns nothing and never navigates.
C3_DeleteAlwaysRevalidates ==
    /\ []C3_State
    /\ \A p \in Procs : (call[p].op = "deleteInvoice") ~> (pc[p] = "done")

C3_Witness ==
    /\ \E p \in Procs : /\ pc[p] = "done" /\ call[p].op = "deleteInvoice"
                        /\ trace[p][1] = "sql_error"
    /\ \E p \in Procs : /\ pc[p] = "done" /\ call[p].op = "deleteInvoice"
                        /\ trace[p][1] = "sql_ok"

\* The rows an executing INSERT or UPDATE writes carry the rounded amount.
C4_Step ==
    \A p \in Procs :
        (Executes(p) /\ IsWrite(p)) =>
            LET cents == Round(Number(call[p].formData.amount).v * 100)
                written == IF call[p].op = "createInvoice"
                           THEN invoices' \ invoices
                           ELSE RowsOf(invoices', call[p].id)
            IN  \A r \in written : r.amount = cents

\* C4: for valid inputs the amount persisted by createInvoice and
\* updateInvoice is round(amount * 100), a whole number of cents.
C4_PersistedAmountIsRounded == [][C4_Step]_vars

\* C5: createInvoice and updateInvoice reject a customerId that is absent or
\* the empty string: a customerId field error, and no statement.
C5_EmptyCustomerIdRejected ==
    \A p \in Procs :
        (pc[p] # "idle" /\ IsWrite(p)
            /\ call[p].formData.customerId \in {Null, Some("")}) =>
            /\ pc[p] = "done"
            /\ result[p].type = "state"
            /\ "errors" \in DOMAIN result[p]
            /\ "customerId" \in DOMAIN result[p].errors
            /\ stmt[p] = NoStmt

\* The fields FormData.get finds no entry for, and the others.
Missing(formData) == {f \in Fields : formData[f] = Null}

Supplied(formData) == Fields \ Missing(formData)

\* C6: when some of customerId, amount and status are missing and the rest
\* are valid, createInvoice and updateInvoice return errors whose keys are
\* exactly the missing fields, each with at least one message, and write
\* nothing.
C6_MissingFieldsAreTheErrorKeys ==
    \A p \in Procs :
        (pc[p] # "idle" /\ IsWrite(p)
            /\ Missing(call[p].formData) # {}
            /\ \A f \in Supplied(call[p].formData) :
                   FormSchema(call[p].formData)[f] = <<>>) =>
            /\ pc[p] = "done"
            /\ result[p].type = "state"
            /\ "errors" \in DOMAIN result[p]
            /\ DOMAIN result[p].errors = Missing(call[p].formData)
            /\ \A f \in DOMAIN result[p].errors : Len(result[p].errors[f]) > 0
            /\ stmt[p] = NoStmt
            /\ trace[p] = <<>>
            /\ invoices \in InitStores

C6_Witness ==
    \E p \in Procs :
        /\ pc[p] = "done" /\ call[p].op = "createInvoice"
        /\ Missing(call[p].formData) = {"amount", "status"}
        /\ call[p].formData.customerId = Some("c1")
        /\ DOMAIN result[p].errors = {"amount", "status"}

\* What the step executing an UPDATE changes.
C7_Step ==
    \A p \in Procs :
        (Executes(p) /\ call[p].op = "updateInvoice") =>
            LET id == call[p].id
                d  == safeParse(call[p].formData).data
            IN  /\ Cardinality(invoices') = Cardinality(invoices)
                /\ \A r \in invoices : r.id # id => r \in invoices'
                /\ \A r \in RowsOf(invoices, id) :
                       Row(id, d.customerId, stmt[p].amount, d.status, r.date)
                           \in invoices'
                /\ RowsOf(invoices, id) = {} => invoices' = invoices
                /\ nextId' = nextId

\* An updateInvoice whose statement executed reports success, row or no row.
C7_Reports ==
    \A p \in Procs :
        (call[p].op = "updateInvoice" /\ pc[p] = "done" /\ "sql_ok" \in Events(p)) =>
            /\ trace[p] = <<"sql_ok", "revalidatePath", "redirect">>
            /\ result[p] = Redirect

\* C7: a successful updateInvoice(id, fields) sets customer_id, amount and
\* status of the rows whose id is id and nothing else: their id and date,
\* every other row, and the set of rows stay as they were.  With no row of
\* that id the store is unchanged, and the invocation still invalidates the
\* cache and navigates.
C7_UpdateFrame == [][C7_Step]_vars /\ []C7_Reports

\* Beside the one row of the store, an update of it and an update of an id
\* that never had a row, both reported as successes.
C7_Witness ==
    \E p, q \in Procs :
        /\ call[p].op = "updateInvoice" /\ call[p].id = SeedRow.id
        /\ call[q].op = "updateInvoice" /\ call[q].id = nextId
        /\ result[p] = Redirect /\ result[q] = Redirect
        /\ lastStmt[SeedRow.id] = stmt[p]
        /\ invoices = {Row(SeedRow.id, stmt[p].customer_id, stmt[p].amount,
                           stmt[p].status, SeedRow.date)}
        /\ SeedRow \notin invoices

\* C8: whatever createInvoice, updateInvoice and deleteInvoice invocations
\* ran, in whatever interleaving, every row has a status of pending or paid
\* and an amount that is a non-negative whole number of cents.
C8_RowsWellFormed ==
    \A r \in invoices :
        /\ r.status \in {"pending", "paid"}
        /\ r.amount >= 0
        /\ r.amount % Scale = 0

\* C9: createInvoice and updateInvoice navigate exactly when validation passed
\* and the statement succeeded; the navigation follows the write and then
\* one cache invalidation, and nothing follows it.
C9_NavigationOnlyAfterWriteAndRevalidate ==
    \A p \in Procs :
        IsWrite(p) =>
            /\ pc[p] # "done" => Events(p) \subseteq {"sql_ok", "sql_error"}
            /\ pc[p] = "done" =>
                   ("redirect" \in Events(p)
                        <=> ("sql_ok" \in Events(p) /\ safeParse(call[p].formData).success))
            /\ ("redirect" \in Events(p) \/ "revalidatePath" \in Events(p)) =>
                   /\ trace[p] = <<"sql_ok", "revalidatePath", "redirect">>
                   /\ result[p] = Redirect
                   /\ pc[p] = "done"
            /\ result[p] = Redirect => "redirect" \in Events(p)

C9_Witness ==
    /\ \E p \in Procs : call[p].op = "createInvoice" /\ result[p] = Redirect
    /\ \E p \in Procs : /\ call[p].op = "updateInvoice" /\ pc[p] = "done"
                        /\ result[p] # Redirect

\* The three columns an UPDATE sets.
Triple(x) == <<x.customer_id, x.amount, x.status>>

\* One statement an invocation, and the last statement on an id decides its row.
C10_State ==
    /\ \A p \in Procs :
           /\ Statements(p) <= 1
           /\ pc[p] = "done" =>
                  Statements(p) =
                      IF IsWrite(p) /\ ~safeParse(call[p].formData).success
                      THEN 0 ELSE 1
    /\ \A id \in Ids :
           /\ lastStmt[id].kind = "UPDATE" =>
                  \A r \in RowsOf(invoices, id) : Triple(r) = Triple(lastStmt[id])
           /\ lastStmt[id].kind = "DELETE" => RowsOf(invoices, id) = {}

\* An UPDATE that finds no row of its id leaves none.
C10_Step ==
    \A p \in Procs :
        (Executes(p) /\ call[p].op = "updateInvoice"
            /\ RowsOf(invoices, call[p].id) = {}) =>
            RowsOf(invoices', call[p].id) = {}

\* C10: an invocation issues at most one statement (one when validation
\* passes, always one for delete), so the last statement to execute on an id
\* decides its row: after an UPDATE the row carries that update's three
\* values entire, after a DELETE there is no row, and an UPDATE that finds
\* no row leaves none.
C10_LastWriteWins == []C10_State /\ [][C10_Step]_vars

\* Two overlapping updates of row 1 with different values, both complete.
C10_Witness ==
    /\ \A p \in Procs :
           /\ call[p].op = "updateInvoice" /\ call[p].id = 1
           /\ pc[p] = "done" /\ "sql_ok" \in Events(p)
    /\ \E p, q \in Procs : stmt[p].status # stmt[q].status
    /\ RowsOf(invoices, 1) # {}

====
